---------------------------- MODULE Spec2Model ----------------------------
(***************************************************************************)
(* Emotion-Adaptive Voice Journal: the audio-to-affect pipeline.           *)
(*                                                                         *)
(* The model covers the zustand store (emotionStore), the two hooks        *)
(* useAudioAnalysis and useEmotionEngine, the page-level dispatch in Home, *)
(* and the two components that write the store (RecorderButton,            *)
(* DebugPanel).                                                            *)
(*                                                                         *)
(* Numbers.  A JavaScript number is modelled as a record                   *)
(*     [t |-> "num", n |-> i]   the value i / Unit  (fixed point), or      *)
(*     [t |-> "NaN", n |-> 0]   NaN, or                                    *)
(*     [t |-> "undefined", n |-> 0]  a property that is absent.            *)
(* Frequencies (spectralCentroid, pitch) are whole Hz; every other         *)
(* quantity is counted in 1/Unit.  Arithmetic rounds to the nearest        *)
(* representable value, and NaN propagates as in IEEE-754.                 *)
(***************************************************************************)
EXTENDS Integers, Sequences, FiniteSets, TLC

(***************************************************************************)
(* Bounds of the model.                                                    *)
(***************************************************************************)
\* fixed-point resolution: 1.0 is Unit
Unit == 1000
\* tasks (event handlers, callbacks) in a run
MaxSteps == 7
\* calls of setEmotionState in a run
MaxWrites == 2

(***************************************************************************)
(* JavaScript numbers                                                      *)
(***************************************************************************)
Num(i) == [t |-> "num", n |-> i]
NaN == [t |-> "NaN", n |-> 0]
Undefined == [t |-> "undefined", n |-> 0]
IsNum(x) == x.t = "num"

\* a / b rounded to the nearest integer, b > 0
RoundDiv(a, b) ==
    IF a >= 0 THEN (2 * a + b) \div (2 * b)
              ELSE -((2 * (-a) + b) \div (2 * b))

\* the literal p/q as a fixed-point quantity
Frac(p, q) == Num(RoundDiv(p * Unit, q))
\* a whole number of Hz (or any integer that is not scaled)
Whole(i) == Num(i)

Add(a, b) == IF IsNum(a) /\ IsNum(b) THEN Num(a.n + b.n) ELSE NaN
Sub(a, b) == IF IsNum(a) /\ IsNum(b) THEN Num(a.n - b.n) ELSE NaN
\* a * b, b a fixed-point quantity: the result has the scale of a
Mul(a, b) == IF IsNum(a) /\ IsNum(b) THEN Num(RoundDiv(a.n * b.n, Unit)) ELSE NaN
\* a / b for a, b of one scale, b > 0: the result is a fixed-point quantity
Div(a, b) == IF IsNum(a) /\ IsNum(b) THEN Num(RoundDiv(a.n * Unit, b.n)) ELSE NaN
\* comparisons are false as soon as one side is NaN or undefined
Gt(a, b) == IsNum(a) /\ IsNum(b) /\ a.n > b.n
Lt(a, b) == IsNum(a) /\ IsNum(b) /\ a.n < b.n
Le(a, b) == IsNum(a) /\ IsNum(b) /\ a.n <= b.n
\* Math.max and Math.min return NaN when an argument is NaN
MathMax(a, b) == IF IsNum(a) /\ IsNum(b) THEN (IF a.n >= b.n THEN a ELSE b) ELSE NaN
MathMin(a, b) == IF IsNum(a) /\ IsNum(b) THEN (IF a.n <= b.n THEN a ELSE b) ELSE NaN

(***************************************************************************)
(* colorUtils                                                              *)
(***************************************************************************)
clamp(value, min, max) == MathMin(MathMax(value, min), max)

\* start + (end - start) * clamp(t, 0, 1)
lerp(start, end, t) ==
    IF IsNum(start) /\ IsNum(end) /\ IsNum(t)
    THEN LET c == IF t.n < 0 THEN 0 ELSE IF t.n > Unit THEN Unit ELSE t.n
         IN  Num(start.n + RoundDiv((end.n - start.n) * c, Unit))
    ELSE NaN

\* a mapRange that does not go through lerp's clamp
mapRangeExtrapolating(value, inMin, inMax, outMin, outMax) ==
    LET normalized == Div(Sub(value, inMin), Sub(inMax, inMin))
    IN  Add(outMin, Mul(Sub(outMax, outMin), normalized))

mapRange(value, inMin, inMax, outMin, outMax) ==
    LET normalized == Div(Sub(value, inMin), Sub(inMax, inMin))
    IN  lerp(outMin, outMax, normalized)

exponentialSmoothFromTarget(current, target, alpha) ==
    Add(target, Mul(Sub(target, current), alpha))

exponentialSmooth(current, target, alpha) ==
    Add(current, Mul(Sub(target, current), alpha))

(***************************************************************************)
(* Math.exp on fixed-point arguments: the power series of e^y for y >= 0,  *)
(* and 1 / e^(-y) for y < 0.                                               *)
(***************************************************************************)
RECURSIVE ExpSeries(_, _, _, _)
ExpSeries(y, k, term, acc) ==
    IF term = 0 THEN acc
    ELSE LET next == RoundDiv(term * y, k * Unit)
         IN  ExpSeries(y, k + 1, next, acc + term)

MathExp(x) ==
    IF ~IsNum(x) THEN NaN
    ELSE IF x.n >= 0 THEN Num(ExpSeries(x.n, 1, Unit, 0))
    ELSE Num(RoundDiv(Unit * Unit, ExpSeries(-x.n, 1, Unit, 0)))

(***************************************************************************)
(* useEmotionEngine: pure functions                                        *)
(***************************************************************************)
\* a sigmoid that ignores its steepness
sigmoidOfUnitSteepness(x, k) ==
    LET e == MathExp(Sub(Num(0), x))
    IN  Sub(Div(Num(2 * Unit), Add(Num(Unit), e)), Num(Unit))

sigmoid(x, k) ==
    LET e == MathExp(Sub(Num(0), Mul(k, x)))
    IN  Sub(Div(Num(2 * Unit), Add(Num(Unit), e)), Num(Unit))

\* THEME_PRESETS: the four quadrant presets, each field a fixed-point quantity
ThemeFields ==
    {"primaryHue", "primarySaturation", "primaryLightness", "secondaryHue",
     "secondarySaturation", "secondaryLightness", "blurAmount", "opacity",
     "animationSpeed", "scaleRange", "driftAmount"}

Melancholic ==
    [primaryHue |-> Frac(210, 1), primarySaturation |-> Frac(100, 1),
     primaryLightness |-> Frac(8, 1), secondaryHue |-> Frac(220, 1),
     secondarySaturation |-> Frac(80, 1), secondaryLightness |-> Frac(20, 1),
     blurAmount |-> Frac(60, 1), opacity |-> Frac(9, 10),
     animationSpeed |-> Frac(1, 10), scaleRange |-> Frac(1, 10),
     driftAmount |-> Frac(20, 1)]

Calm ==
    [primaryHue |-> Frac(180, 1), primarySaturation |-> Frac(60, 1),
     primaryLightness |-> Frac(25, 1), secondaryHue |-> Frac(160, 1),
     secondarySaturation |-> Frac(50, 1), secondaryLightness |-> Frac(35, 1),
     blurAmount |-> Frac(45, 1), opacity |-> Frac(7, 10),
     animationSpeed |-> Frac(25, 100), scaleRange |-> Frac(15, 100),
     driftAmount |-> Frac(30, 1)]

Anxious ==
    [primaryHue |-> Frac(15, 1), primarySaturation |-> Frac(90, 1),
     primaryLightness |-> Frac(30, 1), secondaryHue |-> Frac(0, 1),
     secondarySaturation |-> Frac(85, 1), secondaryLightness |-> Frac(25, 1),
     blurAmount |-> Frac(8, 1), opacity |-> Frac(95, 100),
     animationSpeed |-> Frac(9, 10), scaleRange |-> Frac(3, 10),
     driftAmount |-> Frac(80, 1)]

Joyful ==
    [primaryHue |-> Frac(45, 1), primarySaturation |-> Frac(85, 1),
     primaryLightness |-> Frac(50, 1), secondaryHue |-> Frac(35, 1),
     secondarySaturation |-> Frac(90, 1), secondaryLightness |-> Frac(45, 1),
     blurAmount |-> Frac(15, 1), opacity |-> Frac(8, 10),
     animationSpeed |-> Frac(75, 100), scaleRange |-> Frac(25, 100),
     driftAmount |-> Frac(60, 1)]

\* an interpolateThemes with the calm and the anxious corner exchanged
interpolateThemesCornersExchanged(emotion) ==
    LET vPos == clamp(Div(Add(emotion.valence, Num(Unit)), Num(2 * Unit)), Num(0), Num(Unit))
        aPos == clamp(Div(Add(emotion.arousal, Num(Unit)), Num(2 * Unit)), Num(0), Num(Unit))
    IN  [prop \in ThemeFields |->
            lerp(lerp(Melancholic[prop], Anxious[prop], vPos),
                 lerp(Calm[prop], Joyful[prop], vPos), aPos)]

\* an interpolateThemes that turns hues along the shorter arc of the circle
interpolateThemesShortestArc(emotion) ==
    LET vPos == clamp(Div(Add(emotion.valence, Num(Unit)), Num(2 * Unit)), Num(0), Num(Unit))
        aPos == clamp(Div(Add(emotion.arousal, Num(Unit)), Num(2 * Unit)), Num(0), Num(Unit))
        turn == Frac(360, 1)
        half == Frac(180, 1)
        arc(start, end, t) ==
            IF Gt(Sub(end, start), half) THEN lerp(start, Sub(end, turn), t)
            ELSE IF Gt(Sub(start, end), half) THEN lerp(start, Add(end, turn), t)
            ELSE lerp(start, end, t)
    IN  [prop \in ThemeFields |->
            IF prop \in {"primaryHue", "secondaryHue"}
            THEN arc(arc(Melancholic[prop], Calm[prop], vPos),
                     arc(Anxious[prop], Joyful[prop], vPos), aPos)
            ELSE lerp(lerp(Melancholic[prop], Calm[prop], vPos),
                      lerp(Anxious[prop], Joyful[prop], vPos), aPos)]

\* an interpolateThemes whose blend positions and blends are not clamped
interpolateThemesExtrapolating(emotion) ==
    LET vPos == Div(Add(emotion.valence, Num(Unit)), Num(2 * Unit))
        aPos == Div(Add(emotion.arousal, Num(Unit)), Num(2 * Unit))
        blend(start, end, t) == Add(start, Mul(Sub(end, start), t))
    IN  [prop \in ThemeFields |->
            blend(blend(Melancholic[prop], Calm[prop], vPos),
                  blend(Anxious[prop], Joyful[prop], vPos), aPos)]

interpolateThemes(emotion) ==
    LET vPos == clamp(Div(Add(emotion.valence, Num(Unit)), Num(2 * Unit)), Num(0), Num(Unit))
        aPos == clamp(Div(Add(emotion.arousal, Num(Unit)), Num(2 * Unit)), Num(0), Num(Unit))
    IN  [prop \in ThemeFields |->
            LET bl == Melancholic[prop]
                br == Calm[prop]
                tl == Anxious[prop]
                tr == Joyful[prop]
                bottom == lerp(bl, br, vPos)
                top == lerp(tl, tr, vPos)
            IN  lerp(bottom, top, aPos)]

\* an audioToEmotion that maps every pitch above 0
audioToEmotionAnyPitch(features) ==
    LET pitchValence ==
            IF Gt(features.pitch, Whole(0))
            THEN mapRange(features.pitch, Whole(100), Whole(300), Frac(-1, 2), Frac(1, 2))
            ELSE Num(0)
        brightnessValence ==
            mapRange(features.spectralCentroid, Whole(1000), Whole(3000),
                     Frac(-1, 1), Frac(1, 1))
        valence0 ==
            clamp(Add(Mul(pitchValence, Frac(4, 10)), Mul(brightnessValence, Frac(6, 10))),
                  Frac(-1, 1), Frac(1, 1))
        volumeComponent ==
            mapRange(features.rms, Frac(2, 100), Frac(4, 10), Frac(-1, 1), Frac(1, 1))
        noiseComponent ==
            mapRange(features.clarity, Frac(1, 10), Frac(6, 10), Frac(-1, 2), Frac(1, 2))
        varianceComponent ==
            mapRange(features.pitchVariance, Frac(0, 1), Frac(1, 2), Frac(-1, 2), Frac(1, 2))
        arousal0 ==
            clamp(Add(Add(volumeComponent, noiseComponent), varianceComponent),
                  Frac(-1, 1), Frac(1, 1))
    IN  [valence |-> sigmoid(valence0, Frac(3, 1)),
         arousal |-> sigmoid(arousal0, Frac(25, 10))]

\* audioToEmotion: features.pitch and features.spectralCentroid are whole Hz
audioToEmotion(features) ==
    LET pitchValence ==
            IF Gt(features.pitch, Whole(50))
            THEN mapRange(features.pitch, Whole(100), Whole(300), Frac(-1, 2), Frac(1, 2))
            ELSE Num(0)
        brightnessValence ==
            mapRange(features.spectralCentroid, Whole(1000), Whole(3000),
                     Frac(-1, 1), Frac(1, 1))
        valence0 ==
            clamp(Add(Mul(pitchValence, Frac(4, 10)), Mul(brightnessValence, Frac(6, 10))),
                  Frac(-1, 1), Frac(1, 1))
        volumeComponent ==
            mapRange(features.rms, Frac(2, 100), Frac(4, 10), Frac(-1, 1), Frac(1, 1))
        noiseComponent ==
            mapRange(features.clarity, Frac(1, 10), Frac(6, 10), Frac(-1, 2), Frac(1, 2))
        varianceComponent ==
            mapRange(features.pitchVariance, Frac(0, 1), Frac(1, 2), Frac(-1, 2), Frac(1, 2))
        arousal0 ==
            clamp(Add(Add(volumeComponent, noiseComponent), varianceComponent),
                  Frac(-1, 1), Frac(1, 1))
    IN  [valence |-> sigmoid(valence0, Frac(3, 1)),
         arousal |-> sigmoid(arousal0, Frac(25, 10))]

\* isActiveAudio(rms, threshold = 0.02)
isActiveAudio(rms) == Gt(rms, Frac(2, 100))

(***************************************************************************)
(* audioUtils.  A time buffer is a sequence of samples in 1/Unit, so sums  *)
(* of products of samples are in 1/Unit^2.  A spectrum is a sequence of    *)
(* decibel values: whole multiples of 20 dB from -120 dB up, or -Infinity  *)
(* (what the analyser reports for a silent bin).                           *)
(***************************************************************************)
Infinity == [t |-> "Infinity", n |-> 0]
NegInfinity == [t |-> "-Infinity", n |-> 0]

\* Math.sqrt of a quantity in 1/Unit^2, in 1/Unit (rounded down)
MathSqrt(m) == CHOOSE r \in 0..(2 * Unit) : r * r <= m /\ m < (r + 1) * (r + 1)

\* the loop sum += x[i] * x[i], from index i on
RECURSIVE SumOfSquares(_, _)
SumOfSquares(buffer, i) ==
    IF i > Len(buffer) THEN 0
    ELSE buffer[i] * buffer[i] + SumOfSquares(buffer, i + 1)

\* Math.min(Math.sqrt(sum / length) * 3, 1); sum / length is 0 / 0 for an
\* empty array
calculateRMS(dataArray) ==
    IF Len(dataArray) = 0 THEN NaN
    ELSE LET sum == SumOfSquares(dataArray, 1)
             rms == MathSqrt(RoundDiv(sum, Len(dataArray)))
         IN  MathMin(Num(3 * rms), Frac(1, 1))

\* the number of sign changes between timeData[i - 1] and timeData[i], from
\* index i on
RECURSIVE Crossings(_, _)
Crossings(timeData, i) ==
    IF i > Len(timeData) THEN 0
    ELSE (IF \/ (timeData[i] >= 0 /\ timeData[i - 1] < 0)
             \/ (timeData[i] < 0 /\ timeData[i - 1] >= 0)
          THEN 1 ELSE 0) + Crossings(timeData, i + 1)

calculateZeroCrossingRate(timeData) ==
    MathMin(Frac(Crossings(timeData, 2), 200), Frac(1, 1))

RECURSIVE Pow10(_)
Pow10(k) == IF k <= 0 THEN 1 ELSE 10 * Pow10(k - 1)

\* Math.pow(10, db / 20), in millionths: a power of ten, and 0 for -Infinity
Magnitude(db) == IF db = NegInfinity THEN 0 ELSE Pow10(6 + db.n \div 20)

\* the loops magnitudeSum += magnitude and weightedSum += magnitude * i (the
\* bin width is applied at the end), over the bins from index i on
RECURSIVE MagnitudeSum(_, _)
MagnitudeSum(frequencyData, i) ==
    IF i > Len(frequencyData) THEN 0
    ELSE Magnitude(frequencyData[i]) + MagnitudeSum(frequencyData, i + 1)

RECURSIVE WeightedSum(_, _)
WeightedSum(frequencyData, i) ==
    IF i > Len(frequencyData) THEN 0
    ELSE (i - 1) * Magnitude(frequencyData[i]) + WeightedSum(frequencyData, i + 1)

\* weightedSum / magnitudeSum in whole Hz, 0 when magnitudeSum === 0
calculateSpectralCentroid(frequencyData, sampleRate) ==
    LET nyquist == sampleRate \div 2
        magnitudeSum == MagnitudeSum(frequencyData, 1)
        meanBin == RoundDiv(WeightedSum(frequencyData, 1) * Unit, magnitudeSum)
    IN  IF magnitudeSum = 0 THEN Whole(0)
        ELSE Whole(RoundDiv(meanBin * nyquist, Len(frequencyData) * Unit))

\* the bins calculateSpectralFlatness counts: not the first five, not below
\* -100 dB, magnitude above 0
CountedBins(frequencyData) ==
    {i \in 6..Len(frequencyData) :
        /\ frequencyData[i] # NegInfinity
        /\ ~(frequencyData[i].n < -100)
        /\ Magnitude(frequencyData[i]) > 0}

\* the sum of f over the set of bins
RECURSIVE SumOver(_, _)
SumOver(bins, f) ==
    IF bins = {} THEN 0
    ELSE LET i == CHOOSE j \in bins : TRUE
         IN  f[i] + SumOver(bins \ {i}, f)

\* Math.log(10) and Math.exp(logSum / count): Math.log of the magnitude
\* 10^e is e * log(10), so the geometric mean is 10^(sum of e / count); the
\* whole part of the exponent is a power of ten, the rest goes through
\* Math.exp.  In millionths.
GeometricMean(frequencyData, bins) ==
    LET count == Cardinality(bins)
        exps == SumOver(bins, [i \in bins |-> frequencyData[i].n \div 20])
        whole == exps \div count
        rest == Mul(Frac(exps % count, count), Frac(23026, 10000))
    IN  RoundDiv(Pow10(6 + whole) * MathExp(rest).n, Unit)

calculateSpectralFlatness(frequencyData) ==
    LET bins == CountedBins(frequencyData)
        count == Cardinality(bins)
        sum == SumOver(bins, [i \in bins |-> Magnitude(frequencyData[i])])
    IN  IF count = 0 THEN Num(0)
        ELSE IF sum = 0 THEN Num(0)
        ELSE Num(RoundDiv(GeometricMean(frequencyData, bins) * count * Unit, sum))

\* the inner loop correlation += buffer[i] * buffer[i + period], from index i
RECURSIVE Correlation(_, _, _)
Correlation(buffer, period, i) ==
    IF i + period > Len(buffer) THEN 0
    ELSE buffer[i] * buffer[i + period] + Correlation(buffer, period, i + 1)

\* the lag search with the first lag taking over on an equal correlation too
RECURSIVE LagSearchLastOnTies(_, _, _, _, _)
LagSearchLastOnTies(buffer, period, maxPeriod, bestPeriod, maxCorr) ==
    IF period > maxPeriod THEN [bestPeriod |-> bestPeriod, maxCorr |-> maxCorr]
    ELSE LET correlation == Correlation(buffer, period, 1)
         IN  IF correlation >= maxCorr
             THEN LagSearchLastOnTies(buffer, period + 1, maxPeriod, period,
                                      correlation)
             ELSE LagSearchLastOnTies(buffer, period + 1, maxPeriod, bestPeriod,
                                      maxCorr)

\* the loop over period = minPeriod .. maxPeriod, from `period` on
RECURSIVE LagSearch(_, _, _, _, _)
LagSearch(buffer, period, maxPeriod, bestPeriod, maxCorr) ==
    IF period > maxPeriod THEN [bestPeriod |-> bestPeriod, maxCorr |-> maxCorr]
    ELSE LET correlation == Correlation(buffer, period, 1)
         IN  IF correlation > maxCorr
             THEN LagSearch(buffer, period + 1, maxPeriod, period, correlation)
             ELSE LagSearch(buffer, period + 1, maxPeriod, bestPeriod, maxCorr)

\* a gate on the total energy: Math.sqrt(sumOfSquares) < 0.01
RmsCheckOnTotal(sumOfSquares, SIZE) ==
    sumOfSquares * 100 < (Unit * Unit) \div 100

\* Math.sqrt(sumOfSquares / SIZE) < 0.01, compared on the squares; for an
\* empty buffer the left side is NaN and the comparison false
RmsCheck(sumOfSquares, SIZE) ==
    SIZE > 0 /\ sumOfSquares * 100 < SIZE * ((Unit * Unit) \div 100)

\* sampleRate / bestPeriod
PitchOf(sampleRate, bestPeriod) ==
    IF bestPeriod = 0 THEN Infinity ELSE Frac(sampleRate, bestPeriod)

\* improvedAutoCorrelate(buffer, sampleRate): the value returned, and in
\* `exit` the return statement that produced it
improvedAutoCorrelate(buffer, sampleRate) ==
    LET SIZE == Len(buffer)
        sumOfSquares == SumOfSquares(buffer, 1)
        minPeriod == sampleRate \div 1000
        maxPeriod == sampleRate \div 60
        found == LagSearch(buffer, minPeriod, maxPeriod, 0, -(Unit * Unit))
    IN  IF RmsCheck(sumOfSquares, SIZE)
        THEN Num(0) @@ [exit |-> "rms"]
        ELSE IF maxPeriod > SIZE
        THEN Num(0) @@ [exit |-> "size"]
        ELSE IF 2 * found.maxCorr > sumOfSquares
        THEN PitchOf(sampleRate, found.bestPeriod) @@ [exit |-> "periodic"]
        ELSE Num(0) @@ [exit |-> "aperiodic"]

(***************************************************************************)
(* State                                                                   *)
(***************************************************************************)
VARIABLES
    \* the environment: "AudioContext" in window, SpeechRecognition in window
    isSupported, isSpeechSupported,
    \* has the page been mounted (have the mount effects run)
    mounted,
    \* emotionStore
    isRecording, isSimulationMode, emotionState, audioFeatures, visualTheme,
    \* useEmotionEngine: the two refs, and the id of the animation frame that
    \* is scheduled (the animation effect's animationId), modulo 2
    smoothedEmotion, semanticValenceRef, animationId,
    \* useSpeechToText: the recognizer, the two pieces of React state, and the
    \* transcript the sentiment effect last ran for
    recState, isListening, transcript, transcriptSeen,
    \* useAudioAnalysis: getUserMedia promises still pending, the refs
    \* (analyserRef, audioContextRef and mediaStreamRef are set and cleared
    \* together), animationIdRef, and the analyze callbacks scheduled
    inFlight, analyserRef, animationIdRef, pendingAnalyze,
    \* DebugPanel
    isVisible,
    \* the number of tasks run so far
    steps,
    \* history: the kind of every setEmotionState call so far; for each field of
    \* the slot the index of the call that computed it; the same pair as read by
    \* the latest updateTheme; the arguments of the latest processAudio call
    \* that published; whether stopRecording ran with no startRecording call
    \* after it; and whether the latest processAudio call returned at its
    \* isSimulationMode check
    writes, origin, readOrigin, lastCall, stoppedSinceStart, bypassed,
    \* a call of one of the pure functions of the libraries: the function with
    \* its arguments, and what it returned
    call, returned

envVars == <<isSupported, isSpeechSupported>>
slotVars == <<emotionState, smoothedEmotion, visualTheme, animationId, writes,
              origin, readOrigin, lastCall>>
emotionVars == <<emotionState, smoothedEmotion, visualTheme, animationId,
                 writes, origin, readOrigin, lastCall, bypassed>>
speechVars == <<recState, isListening, transcript, transcriptSeen, semanticValenceRef>>
captureVars == <<inFlight, analyserRef, animationIdRef, pendingAnalyze,
                 audioFeatures, stoppedSinceStart>>
callVars == <<call, returned>>

vars == <<isSupported, isSpeechSupported, mounted, isRecording, isSimulationMode,
          emotionState, audioFeatures, visualTheme, smoothedEmotion,
          semanticValenceRef, animationId, recState, isListening, transcript, transcriptSeen,
          inFlight, analyserRef, animationIdRef, pendingAnalyze, isVisible,
          steps, writes, origin, readOrigin,
          lastCall, stoppedSinceStart, bypassed, call, returned>>

\* emotionStore: defaultEmotionState and defaultAudioFeatures
defaultEmotionState == [valence |-> Frac(-1, 2), arousal |-> Frac(-1, 2)]

defaultAudioFeatures ==
    [rms |-> Num(0), spectralCentroid |-> Whole(0), pitchVariance |-> Num(0),
     pitch |-> Whole(0), clarity |-> Num(0), isActive |-> FALSE]

\* the transcript of a recognizer that has reported nothing: the empty string
NoTranscript == [empty |-> TRUE, score |-> 0]

\* no function has been called, none has returned
NoCall == [fn |-> "none"]
NotReturned == [t |-> "pending", n |-> 0]

\* the page before its first render
PageInit ==
    /\ isSupported \in BOOLEAN
    /\ isSpeechSupported \in BOOLEAN
    /\ mounted = FALSE
    /\ isRecording = FALSE
    /\ isSimulationMode = FALSE
    /\ emotionState = defaultEmotionState
    /\ audioFeatures = defaultAudioFeatures
    /\ visualTheme = << >>
    /\ smoothedEmotion = [valence |-> Num(0), arousal |-> Num(0)]
    /\ semanticValenceRef = Num(0)
    /\ animationId = 0
    /\ recState = "idle"
    /\ isListening = FALSE
    /\ transcript = NoTranscript
    /\ transcriptSeen = NoTranscript
    /\ inFlight = 0
    /\ analyserRef = FALSE
    /\ animationIdRef = FALSE
    /\ pendingAnalyze = 0
    /\ isVisible = FALSE
    /\ steps = 0
    /\ writes = << >>
    /\ origin = [valence |-> 0, arousal |-> 0]
    /\ readOrigin = [valence |-> 0, arousal |-> 0]
    /\ lastCall = [features |-> defaultAudioFeatures, semantic |-> Num(0)]
    /\ stoppedSinceStart = FALSE
    /\ bypassed = FALSE

Init ==
    /\ PageInit
    /\ call = NoCall
    /\ returned = NotReturned

(***************************************************************************)
(* Inputs                                                                  *)
(***************************************************************************)
\* what calculateRMS, calculateSpectralCentroid and calculateZeroCrossingRate
\* return for the buffers of one frame: silence, a level under the activity
\* threshold, a loud bright frame, a soft dark frame
ExtractedFrames ==
    { [rms |-> Frac(0, 1), spectralCentroid |-> Whole(0), pitchVariance |-> Frac(0, 1)],
      [rms |-> Frac(35, 100), spectralCentroid |-> Whole(2800), pitchVariance |-> Frac(1, 10)],
      [rms |-> Frac(1, 10), spectralCentroid |-> Whole(1400), pitchVariance |-> Frac(3, 10)] }

\* complete AudioFeatures snapshots a caller of processAudio can pass
TypedFeatures ==
    { [rms |-> Frac(35, 100), spectralCentroid |-> Whole(2800), pitchVariance |-> Frac(1, 10),
       pitch |-> Whole(250), clarity |-> Frac(3, 10), isActive |-> TRUE],
      [rms |-> Frac(1, 10), spectralCentroid |-> Whole(1400), pitchVariance |-> Frac(3, 10),
       pitch |-> Whole(0), clarity |-> Frac(5, 10), isActive |-> TRUE],
      defaultAudioFeatures }

\* sentiment scores of the recent text (integers), and the transcripts
Scores == {-4, 0, 2}
Transcripts == {NoTranscript} \cup {[empty |-> FALSE, score |-> sc] : sc \in Scores}

\* positions of a DebugPanel slider (min -1, max 1, step 0.01)
SliderValues == {Frac(-1, 1), Frac(25, 100)}

\* the four quick-state buttons
QuickStates ==
    { [valence |-> Frac(-8, 10), arousal |-> Frac(-8, 10)],
      [valence |-> Frac(6, 10), arousal |-> Frac(-5, 10)],
      [valence |-> Frac(-5, 10), arousal |-> Frac(9, 10)],
      [valence |-> Frac(9, 10), arousal |-> Frac(8, 10)] }

\* arguments of setSimulatedEmotion: any two numbers
SimulatedArgs ==
    { [valence |-> Frac(5, 1), arousal |-> Frac(0, 1)],
      [valence |-> Frac(3, 10), arousal |-> Frac(-3, 1)] }

(***************************************************************************)
(* useEmotionEngine                                                        *)
(***************************************************************************)
\* the value updateTheme stores in smoothedEmotion.current
Smoothed(current, target) ==
    [valence |-> exponentialSmooth(current.valence, target.valence, Frac(15, 100)),
     arousal |-> exponentialSmooth(current.arousal, target.arousal, Frac(15, 100))]

\* an updateTheme that interpolates the slot value itself
updateThemeUnsmoothed(target, org) ==
    /\ smoothedEmotion' = target
    /\ visualTheme' = <<interpolateThemes(smoothedEmotion')>>
    /\ readOrigin' = org

\* updateTheme, reading the slot value `target` (whose fields were computed by
\* the calls `org`)
updateTheme(target, org) ==
    /\ smoothedEmotion' = Smoothed(smoothedEmotion, target)
    /\ visualTheme' = <<interpolateThemes(smoothedEmotion')>>
    /\ readOrigin' = org

\* animate: updateTheme(), then requestAnimationFrame(animate)
animate(target, org) ==
    /\ updateTheme(target, org)
    /\ animationId' = 1 - animationId

\* a processAudio with the two weights exchanged
processAudioWeightsExchanged(sim, features, semantic) ==
    IF sim \/ ~features.isActive
    THEN [wrote |-> FALSE, state |-> defaultEmotionState]
    ELSE LET acousticEmotion == audioToEmotion(features)
             fusedValence ==
                 IF semantic # Num(0)
                 THEN Add(Mul(acousticEmotion.valence, Frac(6, 10)),
                          Mul(semantic, Frac(4, 10)))
                 ELSE acousticEmotion.valence
         IN  [wrote |-> TRUE,
              state |-> [valence |-> clamp(fusedValence, Frac(-1, 1), Frac(1, 1)),
                         arousal |-> clamp(acousticEmotion.arousal, Frac(-1, 1),
                                           Frac(1, 1))]]

\* a processAudio without the isActive check
processAudioOfSilence(sim, features, semantic) ==
    IF sim
    THEN [wrote |-> FALSE, state |-> defaultEmotionState]
    ELSE LET acousticEmotion == audioToEmotion(features)
             fusedValence ==
                 IF semantic # Num(0)
                 THEN Add(Mul(acousticEmotion.valence, Frac(4, 10)),
                          Mul(semantic, Frac(6, 10)))
                 ELSE acousticEmotion.valence
         IN  [wrote |-> TRUE,
              state |-> [valence |-> clamp(fusedValence, Frac(-1, 1), Frac(1, 1)),
                         arousal |-> clamp(acousticEmotion.arousal, Frac(-1, 1),
                                           Frac(1, 1))]]

\* a processAudio without the isSimulationMode check
processAudioNoBypass(sim, features, semantic) ==
    IF ~features.isActive
    THEN [wrote |-> FALSE, state |-> defaultEmotionState]
    ELSE LET acousticEmotion == audioToEmotion(features)
             fusedValence ==
                 IF semantic # Num(0)
                 THEN Add(Mul(acousticEmotion.valence, Frac(4, 10)),
                          Mul(semantic, Frac(6, 10)))
                 ELSE acousticEmotion.valence
         IN  [wrote |-> TRUE,
              state |-> [valence |-> clamp(fusedValence, Frac(-1, 1), Frac(1, 1)),
                         arousal |-> clamp(acousticEmotion.arousal, Frac(-1, 1),
                                           Frac(1, 1))]]

\* processAudio(features) under the closure's isSimulationMode and the current
\* semanticValenceRef: whether it calls setEmotionState, and with what
processAudio(sim, features, semantic) ==
    IF sim \/ ~features.isActive
    THEN [wrote |-> FALSE, state |-> defaultEmotionState]
    ELSE LET acousticEmotion == audioToEmotion(features)
             semanticWeight == Frac(6, 10)
             acousticWeight == Sub(Frac(1, 1), semanticWeight)
             fusedValence ==
                 IF semantic # Num(0)
                 THEN Add(Mul(acousticEmotion.valence, acousticWeight),
                          Mul(semantic, semanticWeight))
                 ELSE acousticEmotion.valence
             fusedArousal == acousticEmotion.arousal
         IN  [wrote |-> TRUE,
              state |-> [valence |-> clamp(fusedValence, Frac(-1, 1), Frac(1, 1)),
                         arousal |-> clamp(fusedArousal, Frac(-1, 1), Frac(1, 1))]]

\* a sentiment effect that stores every normalized score
sentimentEffectEveryScore(semantic, tr) ==
    IF tr.empty THEN semantic
    ELSE clamp(Div(Whole(tr.score), Whole(3)), Frac(-1, 1), Frac(1, 1))

\* the sentiment effect for a transcript: the new semanticValenceRef.current
sentimentEffect(semantic, tr) ==
    IF tr.empty THEN semantic
    ELSE LET normalizedScore == clamp(Div(Whole(tr.score), Whole(3)), Frac(-1, 1), Frac(1, 1))
         IN  IF tr.score # 0 THEN normalizedScore ELSE semantic

\* the recording effect with a stopListening that leaves the recognizer alone
recordingEffectWithoutStop(rec, listening, recording) ==
    IF recording /\ isSpeechSupported
    THEN IF ~listening /\ rec = "idle" THEN "starting" ELSE rec
    ELSE rec

\* the recording effect: startListening() or stopListening() with the rendered
\* isListening, as the state of the recognizer afterwards.  start() on a
\* recognizer that has been started throws and is caught.
recordingEffect(rec, listening, recording) ==
    IF recording /\ isSpeechSupported
    THEN IF ~listening /\ rec = "idle" THEN "starting" ELSE rec
    ELSE IF isSpeechSupported /\ listening /\ rec \in {"starting", "running"}
         THEN "stopping"
         ELSE rec

\* setEmotionState(state) by a caller of kind `kind`, and the render it causes:
\* updateTheme is rebuilt for the new emotionState, so the animation effect is
\* cleaned up and run again, and it calls animate() at once
Publish(kind, state, org) ==
    /\ Len(writes) < MaxWrites
    /\ emotionState' = state
    /\ writes' = Append(writes, kind)
    /\ origin' = org
    /\ animate(state, org)

\* the index of the next setEmotionState call
NextWrite == Len(writes) + 1
BothFields(i) == [valence |-> i, arousal |-> i]

\* Home's effect for the snapshot `features` (it runs when audioFeatures or
\* processAudio changed): processAudio(currentFeatures) if isActive
HomeEffect(sim, features) ==
    IF features.isActive
    THEN LET r == processAudio(sim, features, semanticValenceRef)
         IN  /\ bypassed' = sim
             /\ IF r.wrote
                THEN /\ Publish("processAudio", r.state, BothFields(NextWrite))
                     /\ lastCall' = [features |-> features,
                                     semantic |-> semanticValenceRef]
                ELSE UNCHANGED slotVars
    ELSE UNCHANGED emotionVars

(***************************************************************************)
(* useAudioAnalysis                                                        *)
(***************************************************************************)
\* the snapshot analyze builds from the three extracted values: it has no
\* pitch and no clarity property
analyzeFeatures(x) ==
    [rms |-> x.rms, spectralCentroid |-> x.spectralCentroid,
     pitchVariance |-> x.pitchVariance, pitch |-> Undefined, clarity |-> Undefined,
     isActive |-> isActiveAudio(x.rms)]

\* the snapshot stopRecording stores
stoppedFeatures ==
    [rms |-> Num(0), spectralCentroid |-> Whole(0), pitchVariance |-> Num(0),
     pitch |-> Undefined, clarity |-> Undefined, isActive |-> FALSE]

(***************************************************************************)
(* Actions.  A store write re-renders the subscribers synchronously and     *)
(* runs the effects whose dependencies changed before the next task, so an  *)
(* action is one task together with the renders and effects it causes.      *)
(***************************************************************************)
\* every action is one task of the run
Step == steps < MaxSteps /\ steps' = steps + 1

\* the first render of the page and its mount effects: the animation effect
\* calls animate(), the recording effect calls stopListening()
Mount ==
    /\ Step
    /\ UNCHANGED callVars
    /\ ~mounted
    /\ mounted' = TRUE
    /\ animate(emotionState, origin)
    /\ UNCHANGED <<emotionState, writes, origin, lastCall, bypassed>>
    /\ UNCHANGED <<envVars, isRecording, isSimulationMode, speechVars, captureVars,
                   isVisible>>

\* a display-refresh tick: the requestAnimationFrame callback animate
Tick ==
    /\ Step
    /\ UNCHANGED callVars
    /\ mounted
    /\ animate(emotionState, origin)
    /\ UNCHANGED <<emotionState, writes, origin, lastCall, bypassed>>
    /\ UNCHANGED <<envVars, mounted, isRecording, isSimulationMode, speechVars,
                   captureVars, isVisible>>

\* RecorderButton.handleClick while not recording: onStart() runs
\* startRecording up to its await, then setRecording(true)
RecorderStart ==
    /\ Step
    /\ UNCHANGED callVars
    /\ mounted
    /\ ~isRecording
    /\ isSimulationMode' = FALSE
    /\ inFlight' = IF isSupported THEN inFlight + 1 ELSE inFlight
    /\ stoppedSinceStart' = FALSE
    /\ isRecording' = TRUE
    /\ recState' = recordingEffect(recState, isListening, TRUE)
    \* processAudio is rebuilt when isSimulationMode changed: Home's effect runs
    /\ IF isSimulationMode
       THEN HomeEffect(FALSE, audioFeatures)
       ELSE UNCHANGED emotionVars
    /\ UNCHANGED <<envVars, mounted, isListening, transcript, transcriptSeen,
                   semanticValenceRef, analyserRef, animationIdRef, pendingAnalyze,
                   audioFeatures, isVisible>>

\* RecorderButton.handleClick while recording: onStop() runs stopRecording,
\* then setRecording(false); Home's effect runs for the reset audioFeatures
RecorderStop ==
    /\ Step
    /\ UNCHANGED callVars
    /\ mounted
    /\ isRecording
    /\ pendingAnalyze' = IF animationIdRef THEN pendingAnalyze - 1 ELSE pendingAnalyze
    /\ animationIdRef' = FALSE
    /\ analyserRef' = FALSE
    /\ audioFeatures' = stoppedFeatures
    /\ stoppedSinceStart' = TRUE
    /\ isRecording' = FALSE
    /\ recState' = recordingEffect(recState, isListening, FALSE)
    /\ HomeEffect(isSimulationMode, audioFeatures')
    /\ UNCHANGED <<envVars, mounted, isSimulationMode, isListening, transcript,
                   transcriptSeen, semanticValenceRef, inFlight, isVisible>>

\* one frame of analyze for the extracted values x, and Home's effect for the
\* snapshot it stores
AnalyzeBody(x) ==
    /\ audioFeatures' = analyzeFeatures(x)
    /\ animationIdRef' = TRUE
    /\ HomeEffect(isSimulationMode, audioFeatures')

\* getUserMedia resolves: startRecording continues after its await, sets the
\* refs and calls analyze()
GetUserMediaResolve ==
    /\ Step
    /\ UNCHANGED callVars
    /\ inFlight > 0
    /\ inFlight' = inFlight - 1
    /\ analyserRef' = TRUE
    /\ pendingAnalyze' = pendingAnalyze + 1
    /\ \E x \in ExtractedFrames : AnalyzeBody(x)
    /\ UNCHANGED <<envVars, mounted, isRecording, isSimulationMode, speechVars,
                   stoppedSinceStart, isVisible>>

\* getUserMedia rejects: the catch block logs the error
GetUserMediaReject ==
    /\ Step
    /\ UNCHANGED callVars
    /\ inFlight > 0
    /\ inFlight' = inFlight - 1
    /\ UNCHANGED emotionVars
    /\ UNCHANGED <<envVars, mounted, isRecording, isSimulationMode, speechVars,
                   analyserRef, animationIdRef, pendingAnalyze, audioFeatures,
                   stoppedSinceStart, isVisible>>

\* a scheduled analyze callback: it returns at once if the refs were cleared,
\* otherwise it stores a snapshot and schedules itself again
AnalyzeFrame ==
    /\ Step
    /\ UNCHANGED callVars
    /\ pendingAnalyze > 0
    /\ IF analyserRef
       THEN /\ \E x \in ExtractedFrames : AnalyzeBody(x)
            /\ UNCHANGED pendingAnalyze
       ELSE /\ pendingAnalyze' = pendingAnalyze - 1
            /\ UNCHANGED <<emotionVars, animationIdRef, audioFeatures>>
    /\ UNCHANGED <<envVars, mounted, isRecording, isSimulationMode, speechVars,
                   inFlight, analyserRef, stoppedSinceStart, isVisible>>

(***************************************************************************)
(* DebugPanel                                                              *)
(***************************************************************************)
\* a keydown handler whose simulation mode follows the visibility of the panel
KeyDModeFollowsPanel ==
    /\ Step
    /\ UNCHANGED callVars
    /\ mounted
    /\ isVisible' = ~isVisible
    /\ isSimulationMode' = ~isVisible
    /\ IF ~isSimulationMode
       THEN HomeEffect(TRUE, audioFeatures)
       ELSE UNCHANGED emotionVars
    /\ UNCHANGED <<envVars, mounted, isRecording, speechVars, captureVars>>

\* the keydown handler for "d": toggle the panel, enter simulation mode.
\* processAudio is rebuilt when isSimulationMode changed, so Home's effect
\* runs.
KeyD ==
    /\ Step
    /\ UNCHANGED callVars
    /\ mounted
    /\ isVisible' = ~isVisible
    /\ isSimulationMode' = TRUE
    /\ IF ~isSimulationMode
       THEN HomeEffect(TRUE, audioFeatures)
       ELSE UNCHANGED emotionVars
    /\ UNCHANGED <<envVars, mounted, isRecording, speechVars, captureVars>>

\* the close button
PanelClose ==
    /\ Step
    /\ UNCHANGED callVars
    /\ isVisible
    /\ isVisible' = FALSE
    /\ UNCHANGED emotionVars
    /\ UNCHANGED <<envVars, mounted, isRecording, isSimulationMode, speechVars,
                   captureVars>>

\* handleValenceChange(value): setEmotionState({...emotionState, valence: value})
handleValenceChange(value) ==
    Publish("sliderValence", [emotionState EXCEPT !.valence = value],
            [origin EXCEPT !.valence = NextWrite])

\* handleArousalChange(value): setEmotionState({...emotionState, arousal: value})
handleArousalChange(value) ==
    Publish("sliderArousal", [emotionState EXCEPT !.arousal = value],
            [origin EXCEPT !.arousal = NextWrite])

SliderValence ==
    /\ Step
    /\ UNCHANGED callVars
    /\ isVisible
    /\ \E value \in SliderValues : handleValenceChange(value)
    /\ UNCHANGED <<lastCall, bypassed, envVars, mounted, isRecording, isSimulationMode,
                   speechVars, captureVars, isVisible>>

SliderArousal ==
    /\ Step
    /\ UNCHANGED callVars
    /\ isVisible
    /\ \E value \in SliderValues : handleArousalChange(value)
    /\ UNCHANGED <<lastCall, bypassed, envVars, mounted, isRecording, isSimulationMode,
                   speechVars, captureVars, isVisible>>

\* a quick-state button that updates one field of the slot's value
QuickStateOneField ==
    /\ Step
    /\ UNCHANGED callVars
    /\ isVisible
    /\ \E q \in QuickStates :
          Publish("quickState", [emotionState EXCEPT !.valence = q.valence],
                  [origin EXCEPT !.valence = NextWrite])
    /\ UNCHANGED <<lastCall, bypassed, envVars, mounted, isRecording, isSimulationMode,
                   speechVars, captureVars, isVisible>>

\* a quick-state button: setEmotionState of a literal pair
QuickState ==
    /\ Step
    /\ UNCHANGED callVars
    /\ isVisible
    /\ \E q \in QuickStates : Publish("quickState", q, BothFields(NextWrite))
    /\ UNCHANGED <<lastCall, bypassed, envVars, mounted, isRecording, isSimulationMode,
                   speechVars, captureVars, isVisible>>

(***************************************************************************)
(* useSpeechToText and the sentiment effect                                *)
(***************************************************************************)
\* recognition.onstart: setIsListening(true); startListening and stopListening
\* are rebuilt, so the recording effect runs again
RecognitionStart ==
    /\ Step
    /\ UNCHANGED callVars
    /\ recState = "starting"
    /\ isListening' = TRUE
    /\ recState' = recordingEffect("running", TRUE, isRecording)
    /\ UNCHANGED emotionVars
    /\ UNCHANGED <<envVars, mounted, isRecording, isSimulationMode, transcript,
                   transcriptSeen, semanticValenceRef, captureVars, isVisible>>

\* recognition.onend (the recognizer stops by itself, after stop(), or after
\* an error): setIsListening(false); if that changes isListening the
\* recording effect runs again
RecognitionEnd ==
    /\ Step
    /\ UNCHANGED callVars
    /\ recState \in {"starting", "running", "stopping"}
    /\ isListening' = FALSE
    /\ recState' = IF isListening
                   THEN recordingEffect("idle", FALSE, isRecording)
                   ELSE "idle"
    /\ UNCHANGED emotionVars
    /\ UNCHANGED <<envVars, mounted, isRecording, isSimulationMode, transcript,
                   transcriptSeen, semanticValenceRef, captureVars, isVisible>>

\* recognition.onresult: setTranscript(currentTranscript)
SpeechResult ==
    /\ Step
    /\ UNCHANGED callVars
    /\ recState \in {"running", "stopping"}
    /\ \E tr \in Transcripts : transcript' = tr
    /\ UNCHANGED emotionVars
    /\ UNCHANGED <<envVars, mounted, isRecording, isSimulationMode, recState,
                   isListening, transcriptSeen, semanticValenceRef, captureVars,
                   isVisible>>

\* the render for a changed transcript, and the sentiment effect
RenderTranscript ==
    /\ Step
    /\ UNCHANGED callVars
    /\ transcript # transcriptSeen
    /\ transcriptSeen' = transcript
    /\ semanticValenceRef' = sentimentEffect(semanticValenceRef, transcript)
    /\ UNCHANGED emotionVars
    /\ UNCHANGED <<envVars, mounted, isRecording, isSimulationMode, recState,
                   isListening, transcript, captureVars, isVisible>>

(***************************************************************************)
(* Callers of the hook's returned functions                                *)
(***************************************************************************)
\* setSimulatedEmotion(valence, arousal)
setSimulatedEmotion(valence, arousal) ==
    Publish("setSimulatedEmotion", [valence |-> valence, arousal |-> arousal],
            BothFields(NextWrite))

SimulatedCall ==
    /\ Step
    /\ UNCHANGED callVars
    /\ mounted
    /\ \E e \in SimulatedArgs : setSimulatedEmotion(e.valence, e.arousal)
    /\ UNCHANGED <<lastCall, bypassed, envVars, mounted, isRecording, isSimulationMode,
                   speechVars, captureVars, isVisible>>

\* processAudio(features) called on the mounted hook
ProcessAudioOf(features) ==
    /\ Step
    /\ UNCHANGED callVars
    /\ mounted
    /\ LET r == processAudio(isSimulationMode, features, semanticValenceRef)
       IN  /\ bypassed' = isSimulationMode
           /\ IF r.wrote
              THEN /\ Publish("processAudio", r.state, BothFields(NextWrite))
                   /\ lastCall' = [features |-> features,
                                   semantic |-> semanticValenceRef]
              ELSE UNCHANGED slotVars
    /\ UNCHANGED <<envVars, mounted, isRecording, isSimulationMode, speechVars,
                   captureVars, isVisible>>

\* processAudio(features) for a complete snapshot
ProcessAudioCall == \E features \in TypedFeatures : ProcessAudioOf(features)

(***************************************************************************)
(* Specifications                                                          *)
(***************************************************************************)
\* the page
Next ==
    \/ Mount
    \/ Tick
    \/ RecorderStart
    \/ RecorderStop
    \/ GetUserMediaResolve
    \/ GetUserMediaReject
    \/ AnalyzeFrame
    \/ KeyD
    \/ PanelClose
    \/ SliderValence
    \/ SliderArousal
    \/ QuickState
    \/ RecognitionStart
    \/ RecognitionEnd
    \/ SpeechResult
    \/ RenderTranscript

Spec == Init /\ [][Next]_vars

\* useEmotionEngine with the store, the recognizer, and callers of the
\* functions it returns, setSimulatedEmotion and processAudio
HookNext ==
    \/ Mount
    \/ Tick
    \/ RecorderStart
    \/ RecorderStop
    \/ KeyD
    \/ RecognitionStart
    \/ RecognitionEnd
    \/ SpeechResult
    \/ RenderTranscript
    \/ SimulatedCall
    \/ ProcessAudioCall

HookSpec == Init /\ [][HookNext]_vars

\* a display-refresh tick after the last task of the run: the animation loop
\* keeps running
Refresh ==
    /\ steps = MaxSteps
    /\ UNCHANGED callVars
    /\ mounted
    /\ animate(emotionState, origin)
    /\ UNCHANGED <<emotionState, writes, origin, lastCall, bypassed, steps>>
    /\ UNCHANGED <<envVars, mounted, isRecording, isSimulationMode, speechVars,
                   captureVars, isVisible>>

\* the capture cadence and the render cadence; the browser runs every
\* scheduled requestAnimationFrame callback of animate
CaptureNext ==
    \/ Mount
    \/ Tick
    \/ RecorderStart
    \/ RecorderStop
    \/ GetUserMediaResolve
    \/ GetUserMediaReject
    \/ AnalyzeFrame
    \/ Refresh

\* what Mount does to mounted, and what Tick and Refresh do to the refs
Mounting == steps < MaxSteps /\ ~mounted /\ mounted' = TRUE
Animating ==
    /\ mounted
    /\ smoothedEmotion' = Smoothed(smoothedEmotion, emotionState)
    /\ animationId' = 1 - animationId

\* the page is mounted, and the animation loop goes on
FairSpec ==
    /\ Init
    /\ [][CaptureNext]_vars
    /\ WF_mounted(Mounting)
    /\ WF_<<smoothedEmotion, animationId>>(Animating)

(***************************************************************************)
(* Range of the published and of the smoothed EmotionState                 *)
(***************************************************************************)
Abs(i) == IF i < 0 THEN -i ELSE i

\* a defined number inside [-1, 1]
InRange(x) == IsNum(x) /\ x.n >= -Unit /\ x.n <= Unit

\* the caller of the latest setEmotionState
LastWriter == IF writes = << >> THEN "none" ELSE writes[Len(writes)]

\* C1: whenever the slot's value was written by processAudio for a snapshot
\* of the capture loop, its valence and its arousal are numbers in [-1, 1]
C1_CaptureRange ==
    LastWriter = "processAudio" =>
        InRange(emotionState.valence) /\ InRange(emotionState.arousal)

\* C2: after any writes of the slot and any ticks, the smoothed valence and
\* arousal are numbers in [-1, 1]
C2_SmoothedRange ==
    \A f \in {"valence", "arousal"} :
        /\ ~Lt(smoothedEmotion[f], Frac(-1, 1))
        /\ ~Gt(smoothedEmotion[f], Frac(1, 1))

(***************************************************************************)
(* Publish-by-replacement                                                  *)
(***************************************************************************)
\* C3 as claimed: the pair read by updateTheme has both fields from one write
C3_OneWritePerPair == readOrigin.valence = readOrigin.arousal

\* C3: the fields of the pair read by updateTheme come from different writes
\* only if the later of the two is a DebugPanel slider write of that field;
\* and updateTheme reads the pair that is in the slot
C3_SliderCarriesOther ==
    /\ mounted => readOrigin = origin
    /\ readOrigin.valence > readOrigin.arousal =>
           writes[readOrigin.valence] = "sliderValence"
    /\ readOrigin.arousal > readOrigin.valence =>
           writes[readOrigin.arousal] = "sliderArousal"

\* a slider write on top of a write of both fields has been read
C3_Witness ==
    /\ readOrigin.valence # readOrigin.arousal
    /\ readOrigin.valence > 0
    /\ readOrigin.arousal > 0

(***************************************************************************)
(* SentimentFusion                                                         *)
(***************************************************************************)
\* the render of a transcript that is empty or scores zero
ZeroScoreRender ==
    /\ transcriptSeen' # transcriptSeen
    /\ transcript.empty \/ transcript.score = 0

\* C4: a render of an empty or zero-score transcript leaves semanticValenceRef
\* as it was, so every snapshot fuses to the same valence before and after;
\* semanticValenceRef changes only when a non-zero score is rendered
C4_Sticky ==
    [][ /\ ZeroScoreRender =>
            /\ semanticValenceRef' = semanticValenceRef
            /\ \A f \in TypedFeatures :
                   processAudio(FALSE, f, semanticValenceRef').state.valence
                       = processAudio(FALSE, f, semanticValenceRef).state.valence
        /\ semanticValenceRef' # semanticValenceRef =>
            /\ transcriptSeen' # transcriptSeen
            /\ ~transcript.empty
            /\ transcript.score # 0 ]_vars

\* a zero score has been rendered after a non-zero one was stored
C4_Witness ==
    /\ semanticValenceRef # Num(0)
    /\ ~transcriptSeen.empty
    /\ transcriptSeen.score = 0

\* 0.4 v + 0.6 s clamped to [-1, 1], in 1/Unit
WeightedValence(v, s) ==
    LET w == RoundDiv(4 * v + 6 * s, 10)
    IN  IF w > Unit THEN Unit ELSE IF w < -Unit THEN -Unit ELSE w

\* C5: the pair processAudio published for the snapshot and the semantic
\* signal of its call has valence clamp(0.4 v + 0.6 s) if s is non-zero and v
\* if s is zero, and arousal a, where (v, a) is audioToEmotion of the snapshot
C5_Fusion ==
    LastWriter = "processAudio" =>
        LET acoustic == audioToEmotion(lastCall.features)
            s == lastCall.semantic
            expected == IF s # Num(0)
                        THEN WeightedValence(acoustic.valence.n, s.n)
                        ELSE acoustic.valence.n
        IN  /\ IsNum(emotionState.valence)
            /\ Abs(emotionState.valence.n - expected) <= 2
            /\ s = Num(0) => emotionState.valence = acoustic.valence
            /\ emotionState.arousal = acoustic.arousal

\* processAudio has published a pair fused with a non-zero semantic signal
\* for a complete snapshot
C5_Witness ==
    /\ LastWriter = "processAudio"
    /\ lastCall.semantic # Num(0)
    /\ IsNum(lastCall.features.clarity)
    /\ emotionState.valence # audioToEmotion(lastCall.features).valence

(***************************************************************************)
(* Session reset                                                           *)
(***************************************************************************)
\* C6: when recording starts again after a stop, smoothedEmotion and
\* semanticValenceRef are at their initial values
C6_SessionReset ==
    [][ (~isRecording /\ isRecording' /\ stoppedSinceStart) =>
            /\ smoothedEmotion' = [valence |-> Num(0), arousal |-> Num(0)]
            /\ semanticValenceRef' = Num(0) ]_vars

(***************************************************************************)
(* TemporalSmoother                                                        *)
(***************************************************************************)
\* |a - b|
Dist(a, b) == IF IsNum(a) /\ IsNum(b) THEN Num(Abs(a.n - b.n)) ELSE NaN

\* C7: a tick takes each smoothed component c with target t to
\* c + 0.15 (t - c); the distance to t does not grow and the component does
\* not pass t
C7_Stability ==
    [][ Tick =>
          \A f \in {"valence", "arousal"} :
              LET c == smoothedEmotion[f]
                  t == emotionState[f]
                  n == smoothedEmotion'[f]
              IN  /\ IF IsNum(c) /\ IsNum(t)
                     THEN /\ IsNum(n)
                          /\ Abs(n.n - (c.n + RoundDiv(15 * (t.n - c.n), 100))) <= 1
                     ELSE ~IsNum(n)
                  /\ ~Gt(Dist(t, n), Dist(t, c))
                  /\ ~(Lt(c, t) /\ Gt(n, t))
                  /\ ~(Gt(c, t) /\ Lt(n, t)) ]_vars

\* a tick has moved the smoothed pair past the step of the mount, toward a
\* target that no write has changed
C7_Witness ==
    /\ mounted
    /\ writes = << >>
    /\ Lt(smoothedEmotion.valence, exponentialSmooth(Num(0), emotionState.valence,
                                                     Frac(15, 100)))
    /\ Gt(smoothedEmotion.valence, emotionState.valence)

\* both smoothed components are within 0.01 of the slot's value
NearTarget ==
    \A f \in {"valence", "arousal"} :
        Le(Dist(smoothedEmotion[f], emotionState[f]), Frac(1, 100))

\* C8: once the capture cadence has stopped writing and ticks go on, the
\* smoothed pair gets within the tolerance of the last written target and
\* stays there
C8_Convergence == <>[]NearTarget

(***************************************************************************)
(* Cadences                                                                *)
(***************************************************************************)
\* C9: after the mount the smoothed pair and the theme change only in a
\* tick, and a write of the slot by processAudio changes neither
C9_OneStepPerTick ==
    [][ /\ (mounted /\ (smoothedEmotion' # smoothedEmotion
                          \/ visualTheme' # visualTheme)) => Tick
        /\ (Len(writes') > Len(writes) /\ writes'[Len(writes')] = "processAudio") =>
              UNCHANGED <<smoothedEmotion, visualTheme>> ]_vars

\* C10: from stopRecording until the next startRecording no capture cycle
\* writes audioFeatures or the slot
C10_StopHalts ==
    [][ (stoppedSinceStart /\ stoppedSinceStart') =>
            /\ audioFeatures' = audioFeatures
            /\ ~(Len(writes') > Len(writes)
                   /\ writes'[Len(writes')] = "processAudio") ]_vars

(***************************************************************************)
(* The pure functions of the libraries, called on their own                *)
(***************************************************************************)
pageVars == <<isSupported, isSpeechSupported, mounted, isRecording, isSimulationMode,
              emotionState, audioFeatures, visualTheme, smoothedEmotion,
              semanticValenceRef, animationId, recState, isListening, transcript,
              transcriptSeen, inFlight, analyserRef, animationIdRef, pendingAnalyze,
              isVisible, steps, writes, origin, readOrigin, lastCall,
              stoppedSinceStart, bypassed>>

\* coordinates of an EmotionState passed to interpolateThemes: the range
\* [-1, 1] and values on both sides of it
ThemeAxis ==
    {Frac(-15, 10), Frac(-1, 1), Frac(-4, 10), Frac(0, 1), Frac(3, 10), Frac(1, 1),
     Frac(2, 1)}

ThemeCalls ==
    {[fn |-> "interpolateThemes", emotion |-> [valence |-> v, arousal |-> a]] :
        v \in ThemeAxis, a \in ThemeAxis}

\* interpolateThemes(emotion) returns
InterpolateThemesCall ==
    /\ call.fn = "interpolateThemes"
    /\ returned = NotReturned
    /\ returned' = interpolateThemes(call.emotion)
    /\ UNCHANGED <<call, pageVars>>

\* arguments of mapRange: values inside, on the ends of and outside the input
\* range; the ranges of audioToEmotion and a descending output range
MapRangeValues ==
    {Frac(-3, 1), Frac(-1, 2), Frac(0, 1), Frac(1, 10), Frac(1, 4), Frac(6, 10),
     Frac(1, 1), Frac(12, 10), Frac(5, 1)}

MapRangeRanges ==
    { [inMin |-> Frac(0, 1), inMax |-> Frac(1, 1),
       outMin |-> Frac(0, 1), outMax |-> Frac(10, 1)],
      [inMin |-> Frac(1, 10), inMax |-> Frac(6, 10),
       outMin |-> Frac(-1, 2), outMax |-> Frac(1, 2)],
      [inMin |-> Frac(0, 1), inMax |-> Frac(1, 1),
       outMin |-> Frac(1, 1), outMax |-> Frac(-1, 1)] }

MapRangeCalls ==
    {[fn |-> "mapRange", value |-> x, range |-> r] :
        x \in MapRangeValues, r \in MapRangeRanges}

\* mapRange(value, inMin, inMax, outMin, outMax) returns
MapRangeCall ==
    /\ call.fn = "mapRange"
    /\ returned = NotReturned
    /\ returned' = mapRange(call.value, call.range.inMin, call.range.inMax,
                            call.range.outMin, call.range.outMax)
    /\ UNCHANGED <<call, pageVars>>

\* a time buffer given in thousandths
Buffer(th) == [i \in DOMAIN th |-> Frac(th[i], 1000).n]
\* n repetitions of the sequence `period`
Repeat(period, n) == [i \in 1..(n * Len(period)) |-> period[((i - 1) % Len(period)) + 1]]

\* time buffers: empty; silence; a quiet constant (each sample 0.005);
\* an audible constant (each sample 0.05);
\* a wave of period 4; a wave whose lags 2 and 6 correlate equally; a wave
\* whose best correlation is exactly half its energy; full-scale alternation;
\* one impulse; three samples
TimeBuffers ==
    { << >>,
      Buffer(Repeat(<<0>>, 16)),
      Buffer(Repeat(<<5>>, 16)),
      Buffer(Repeat(<<50>>, 16)),
      Buffer(Repeat(<<500, 0, -500, 0>>, 4)),
      Buffer(<<-200, 200, -200, 0, -200, 0, -200, 200, -200, 0, -200, 0, -200, 200,
               -200, 0>>),
      Buffer(<<100, 100, 100, -100, -200, 100, 100, 100, -100, -200, 0, 0, 0, 0, 0,
               0>>),
      Buffer(Repeat(<<1000, -1000>>, 8)),
      Buffer(<<1000>> \o Repeat(<<0>>, 15)),
      Buffer(<<500, -500, 500>>) }

\* sample rates: below 1000 Hz (floor(sampleRate / 1000) is 0) and from
\* 1000 Hz on
SampleRates == {120, 500, 1000, 1019}

\* spectra: empty; silent; below the flatness floor; flat; one peak; sloped
Spectra ==
    { << >>,
      Repeat(<<NegInfinity>>, 7),
      Repeat(<<Num(-120)>>, 7),
      Repeat(<<Num(-40)>>, 7),
      Repeat(<<Num(-100)>>, 5) \o <<Num(-20), Num(-100)>>,
      <<Num(-60), Num(-40), Num(-20), Num(-40), Num(-60), Num(-40), Num(-60),
        Num(-100)>> }

\* sample rates of an AudioContext
ContextSampleRates == {8000, 48000}

AudioCalls ==
    {[fn |-> "calculateRMS", dataArray |-> b] : b \in TimeBuffers}
    \cup {[fn |-> "calculateZeroCrossingRate", timeData |-> b] : b \in TimeBuffers}
    \cup {[fn |-> "calculateSpectralCentroid", frequencyData |-> f, sampleRate |-> r] :
            f \in Spectra, r \in ContextSampleRates}
    \cup {[fn |-> "calculateSpectralFlatness", frequencyData |-> f] : f \in Spectra}
    \cup {[fn |-> "improvedAutoCorrelate", buffer |-> b, sampleRate |-> r] :
            b \in TimeBuffers, r \in SampleRates}

CalculateRMSCall ==
    /\ call.fn = "calculateRMS"
    /\ returned = NotReturned
    /\ returned' = calculateRMS(call.dataArray)
    /\ UNCHANGED <<call, pageVars>>

CalculateZeroCrossingRateCall ==
    /\ call.fn = "calculateZeroCrossingRate"
    /\ returned = NotReturned
    /\ returned' = calculateZeroCrossingRate(call.timeData)
    /\ UNCHANGED <<call, pageVars>>

CalculateSpectralCentroidCall ==
    /\ call.fn = "calculateSpectralCentroid"
    /\ returned = NotReturned
    /\ returned' = calculateSpectralCentroid(call.frequencyData, call.sampleRate)
    /\ UNCHANGED <<call, pageVars>>

CalculateSpectralFlatnessCall ==
    /\ call.fn = "calculateSpectralFlatness"
    /\ returned = NotReturned
    /\ returned' = calculateSpectralFlatness(call.frequencyData)
    /\ UNCHANGED <<call, pageVars>>

ImprovedAutoCorrelateCall ==
    /\ call.fn = "improvedAutoCorrelate"
    /\ returned = NotReturned
    /\ returned' = improvedAutoCorrelate(call.buffer, call.sampleRate)
    /\ UNCHANGED <<call, pageVars>>

\* snapshots passed to audioToEmotion: pitch undetected (0), at most 50 Hz,
\* absent, and detected; clarity present at four levels and absent
EmotionCalls ==
    {[fn |-> "audioToEmotion",
      features |-> [rms |-> Frac(35, 100), spectralCentroid |-> Whole(c),
                    pitchVariance |-> Frac(1, 10), pitch |-> p, clarity |-> q,
                    isActive |-> TRUE]] :
        c \in {1400, 2800},
        p \in {Whole(0), Whole(30), Whole(50), Undefined, Whole(51), Whole(250)},
        q \in {Frac(1, 10), Frac(3, 10), Frac(4, 10), Frac(6, 10), Undefined}}

\* audioToEmotion(features) returns
AudioToEmotionCall ==
    /\ call.fn = "audioToEmotion"
    /\ returned = NotReturned
    /\ returned' = audioToEmotion(call.features)
    /\ UNCHANGED <<call, pageVars>>

LibraryCalls == ThemeCalls \cup MapRangeCalls \cup AudioCalls \cup EmotionCalls

LibraryInit ==
    /\ PageInit
    /\ isSupported
    /\ isSpeechSupported
    /\ call \in LibraryCalls
    /\ returned = NotReturned

LibraryNext ==
    \/ InterpolateThemesCall
    \/ MapRangeCall
    \/ CalculateRMSCall
    \/ CalculateZeroCrossingRateCall
    \/ CalculateSpectralCentroidCall
    \/ CalculateSpectralFlatnessCall
    \/ ImprovedAutoCorrelateCall
    \/ AudioToEmotionCall

LibrarySpec == LibraryInit /\ [][LibraryNext]_vars

\* the loud, bright, low-variance snapshot with a detected pitch of 250 Hz,
\* for each clarity
ScenarioCalls ==
    {[fn |-> "processAudio", features |-> c.features] :
        c \in {d \in EmotionCalls : /\ d.features.spectralCentroid = Whole(2800)
                                    /\ d.features.pitch = Whole(250)}}

\* processAudio(features) for the snapshot of the scenario
ScenarioCall ==
    /\ call.fn = "processAudio"
    /\ ProcessAudioOf(call.features)

ScenarioInit ==
    /\ PageInit
    /\ isSupported
    /\ isSpeechSupported
    /\ call \in ScenarioCalls
    /\ returned = NotReturned

ScenarioNext ==
    \/ Mount
    \/ Tick
    \/ ScenarioCall

\* the hook fed with one snapshot and rendered
ScenarioSpec == ScenarioInit /\ [][ScenarioNext]_vars

(***************************************************************************)
(* ThemeInterpolator                                                       *)
(***************************************************************************)
\* interpolateThemes has returned for the pair (v, a), given in tenths
ThemeReturnedAt(v, a) ==
    /\ call.fn = "interpolateThemes"
    /\ returned # NotReturned
    /\ call.emotion = [valence |-> Frac(v, 10), arousal |-> Frac(a, 10)]

\* C11: interpolateThemes returns the melancholic preset at (-1, -1), calm at
\* (1, -1), anxious at (-1, 1) and joyful at (1, 1), in all eleven fields
C11_BoundaryMatch ==
    /\ ThemeReturnedAt(-10, -10) => returned = Melancholic
    /\ ThemeReturnedAt(10, -10) => returned = Calm
    /\ ThemeReturnedAt(-10, 10) => returned = Anxious
    /\ ThemeReturnedAt(10, 10) => returned = Joyful

\* interpolateThemes has returned for the calm corner
C11_Witness == ThemeReturnedAt(10, -10) /\ DOMAIN returned = ThemeFields

\* (x + 1) / 2 clamped to [0, 1], in 1/Unit
Pos(x) ==
    LET q == RoundDiv((x + Unit) * Unit, 2 * Unit)
    IN  IF q < 0 THEN 0 ELSE IF q > Unit THEN Unit ELSE q

\* start + (end - start) * t for t in [0, 1], in 1/Unit
Blend(start, end, t) == start + RoundDiv((end - start) * t, Unit)

\* C12: every field of the returned theme, the hues included, is the blend
\* of the four presets: first along valence, then along arousal; at valence
\* -1 and arousal 0 primaryHue is the midpoint of 210 and 15
C12_Bilinear ==
    (call.fn = "interpolateThemes" /\ returned # NotReturned) =>
        LET vPos == Pos(call.emotion.valence.n)
            aPos == Pos(call.emotion.arousal.n)
        IN  /\ \A f \in ThemeFields :
                   /\ IsNum(returned[f])
                   /\ returned[f].n =
                          Blend(Blend(Melancholic[f].n, Calm[f].n, vPos),
                                Blend(Anxious[f].n, Joyful[f].n, vPos), aPos)
            /\ ThemeReturnedAt(-10, 0) =>
                   Abs(returned.primaryHue.n - Frac(225, 2).n) <= Frac(2, 10).n

\* interpolateThemes has returned a theme between the presets whose hue
\* differs from the one on the shorter arc
C12_Witness ==
    /\ ThemeReturnedAt(-10, 0)
    /\ returned.primaryHue.n < Frac(210, 1).n
    /\ returned.primaryHue.n > Frac(15, 1).n

(***************************************************************************)
(* Simulation override                                                     *)
(***************************************************************************)
\* C13: a processAudio call made while isSimulationMode is true leaves the
\* shared EmotionState as it was, whatever the features
C13_SimulationBypass ==
    [][ (isSimulationMode /\ ProcessAudioCall) =>
            /\ emotionState' = emotionState
            /\ writes' = writes
            /\ bypassed' ]_vars

\* processAudio was called in simulation mode, after a simulated pair had
\* been written
C13_Witness ==
    /\ isSimulationMode
    /\ bypassed
    /\ LastWriter = "setSimulatedEmotion"

\* the slot holds a pair supplied to setSimulatedEmotion while the override
\* is active
OverrideActive == isSimulationMode /\ LastWriter = "setSimulatedEmotion"

\* C14 as claimed: the theme published at a tick while the override is
\* active is interpolateThemes of the supplied pair itself
C14_FedDirectly ==
    [][ (OverrideActive /\ Tick) =>
            visualTheme' = <<interpolateThemes(emotionState)>> ]_vars

\* C14: setSimulatedEmotion stores the supplied pair in the slot as it is, and
\* a tick made while the override is active leaves the pair alone and
\* publishes interpolateThemes of the smoothed state after one
\* exponentialSmooth step (0.15) from the previous smoothed state toward it
C14_FedThroughSmoothing ==
    [][ /\ SimulatedCall =>
              /\ emotionState' \in SimulatedArgs
              /\ visualTheme' =
                    <<interpolateThemes(Smoothed(smoothedEmotion, emotionState'))>>
        /\ (OverrideActive /\ Tick) =>
              /\ emotionState' = emotionState
              /\ smoothedEmotion' = Smoothed(smoothedEmotion, emotionState)
              /\ visualTheme' = <<interpolateThemes(smoothedEmotion')>> ]_vars

\* a tick after the pair was supplied: the smoothed state has made two steps
\* toward the pair (the write's own and the tick's) and is not yet there
C14_Witness ==
    /\ OverrideActive
    /\ smoothedEmotion =
          Smoothed(Smoothed(Smoothed([valence |-> Num(0), arousal |-> Num(0)],
                                     defaultEmotionState),
                            emotionState),
                   emotionState)
    /\ visualTheme # <<interpolateThemes(emotionState)>>

(***************************************************************************)
(* Data flow                                                               *)
(***************************************************************************)
\* C15: a tick changes only the smoothed state and the theme and leaves the
\* slot, semanticValenceRef and audioFeatures alone; a processAudio call
\* changes only the slot and leaves the smoothed state, the theme and
\* semanticValenceRef alone
C15_ForwardOnly ==
    [][ /\ Tick => UNCHANGED <<emotionState, semanticValenceRef, audioFeatures>>
        /\ ProcessAudioCall =>
              UNCHANGED <<smoothedEmotion, visualTheme, semanticValenceRef>> ]_vars

(***************************************************************************)
(* mapRange                                                                *)
(***************************************************************************)
\* mapRange has returned for a value outside [inMin, inMax]
MapRangeOutside ==
    /\ call.fn = "mapRange"
    /\ returned # NotReturned
    /\ (Lt(call.value, call.range.inMin) \/ Gt(call.value, call.range.inMax))

\* outMin + (outMax - outMin) * (x - inMin) / (inMax - inMin), in 1/Unit
Extrapolated(x, r) ==
    r.outMin.n + RoundDiv((r.outMax.n - r.outMin.n) * (x.n - r.inMin.n),
                          r.inMax.n - r.inMin.n)

\* C18 as claimed: for a value outside the input range mapRange returns the
\* extrapolated value, which lies outside [outMin, outMax]
C18_Extrapolates ==
    MapRangeOutside =>
        /\ IsNum(returned)
        /\ Abs(returned.n - Extrapolated(call.value, call.range)) <= Frac(1, 100).n
        /\ \/ Lt(returned, MathMin(call.range.outMin, call.range.outMax))
           \/ Gt(returned, MathMax(call.range.outMin, call.range.outMax))

\* C18: mapRange saturates: below inMin it returns outMin, above inMax it
\* returns outMax, and in between the linear value
C18_Saturates ==
    (call.fn = "mapRange" /\ returned # NotReturned) =>
        /\ IsNum(returned)
        /\ Lt(call.value, call.range.inMin) => returned = call.range.outMin
        /\ Gt(call.value, call.range.inMax) => returned = call.range.outMax
        /\ ~MapRangeOutside =>
              Abs(returned.n - Extrapolated(call.value, call.range)) <= Frac(1, 100).n

\* mapRange has returned an end of the output range for a value beyond the
\* input range, where the extrapolated value is another
C18_Witness ==
    /\ MapRangeOutside
    /\ returned \in {call.range.outMin, call.range.outMax}
    /\ returned.n # Extrapolated(call.value, call.range)

(***************************************************************************)
(* FeatureExtractor                                                        *)
(***************************************************************************)
\* the call of `fn` has returned
Returned(fn) == call.fn = fn /\ returned # NotReturned

\* an empty or all-silence time buffer; an empty or all-zero-magnitude
\* spectrum
Silent(buffer) == \A i \in DOMAIN buffer : buffer[i] = 0
ZeroMagnitude(frequencyData) ==
    \A i \in DOMAIN frequencyData : Magnitude(frequencyData[i]) = 0

\* C16: for an empty or all-silence time buffer and an empty or
\* all-zero-magnitude spectrum, loudness, the zero-crossing proxy, pitch,
\* brightness and flatness are exactly 0, and isActive is false
C16_DegenerateZero ==
    /\ (Returned("calculateRMS") /\ Silent(call.dataArray)) =>
           returned = Num(0) /\ ~isActiveAudio(returned)
    /\ (Returned("calculateZeroCrossingRate") /\ Silent(call.timeData)) =>
           returned = Num(0)
    /\ (Returned("improvedAutoCorrelate") /\ Silent(call.buffer)) =>
           returned.t = "num" /\ returned.n = 0
    /\ (Returned("calculateSpectralCentroid") /\ ZeroMagnitude(call.frequencyData)) =>
           returned = Num(0)
    /\ (Returned("calculateSpectralFlatness") /\ ZeroMagnitude(call.frequencyData)) =>
           returned = Num(0)

\* a number in [0, 1]
InUnitRange(x) == IsNum(x) /\ 0 <= x.n /\ x.n <= Unit
\* a non-empty buffer of samples in [-1, 1]; a spectrum of finite decibels
ValidBuffer(buffer) ==
    Len(buffer) > 0 /\ \A i \in DOMAIN buffer : -Unit <= buffer[i] /\ buffer[i] <= Unit
FiniteSpectrum(frequencyData) ==
    \A i \in DOMAIN frequencyData : IsNum(frequencyData[i])

\* C17: on non-empty buffers of samples in [-1, 1], finite spectra and
\* positive sample rates, calculateRMS, calculateZeroCrossingRate and
\* calculateSpectralFlatness return numbers in [0, 1], and
\* calculateSpectralCentroid and improvedAutoCorrelate finite numbers >= 0
C17_FeatureRanges ==
    /\ (Returned("calculateRMS") /\ ValidBuffer(call.dataArray)) =>
           InUnitRange(returned)
    /\ (Returned("calculateZeroCrossingRate") /\ ValidBuffer(call.timeData)) =>
           InUnitRange(returned)
    /\ (Returned("calculateSpectralFlatness") /\ FiniteSpectrum(call.frequencyData)) =>
           InUnitRange(returned)
    /\ (Returned("calculateSpectralCentroid") /\ FiniteSpectrum(call.frequencyData)) =>
           IsNum(returned) /\ returned.n >= 0
    /\ (Returned("improvedAutoCorrelate") /\ ValidBuffer(call.buffer)) =>
           returned.t = "num" /\ returned.n >= 0

(***************************************************************************)
(* Pitch detection                                                         *)
(***************************************************************************)
\* the sum of squared samples, and the sum of products at a lag, in 1/Unit^2
Energy(buffer) == SumOver(DOMAIN buffer, [i \in DOMAIN buffer |-> buffer[i] * buffer[i]])
Autocorrelation(buffer, lag) ==
    SumOver(1..(Len(buffer) - lag),
            [i \in 1..(Len(buffer) - lag) |-> buffer[i] * buffer[i + lag]])

\* C19 as claimed: improvedAutoCorrelate returns at its energy gate exactly
\* when the square root of the sum of squared samples is below 0.01
C19_GateOnTotalEnergy ==
    Returned("improvedAutoCorrelate") =>
        (returned.exit = "rms" <=> Energy(call.buffer) * 100 < (Unit * Unit) \div 100)

\* C19: improvedAutoCorrelate returns 0 at its gate exactly when the root of
\* the mean of the squared samples (the sum of squares divided by the
\* buffer's length) is below 0.01
C19_GateOnMeanEnergy ==
    Returned("improvedAutoCorrelate") =>
        /\ returned.exit = "rms" <=>
              /\ Len(call.buffer) > 0
              /\ Energy(call.buffer) * 100 <
                    Len(call.buffer) * ((Unit * Unit) \div 100)
        /\ returned.exit = "rms" => (returned.t = "num" /\ returned.n = 0)

\* the gate has returned 0 for a buffer whose total energy has a square root
\* of at least 0.01
C19_Witness ==
    /\ Returned("improvedAutoCorrelate")
    /\ returned.exit = "rms"
    /\ Energy(call.buffer) > 0
    /\ ~(Energy(call.buffer) * 100 < (Unit * Unit) \div 100)

\* the lags searched, and the smallest lag of maximum autocorrelation
Lags(sampleRate) == (sampleRate \div 1000)..(sampleRate \div 60)
BestLag(buffer, sampleRate) ==
    CHOOSE p \in Lags(sampleRate) :
        \A q \in Lags(sampleRate) :
            /\ Autocorrelation(buffer, q) <= Autocorrelation(buffer, p)
            /\ q < p => Autocorrelation(buffer, q) < Autocorrelation(buffer, p)

\* C20: past the gate and the length check, improvedAutoCorrelate returns
\* sampleRate / bestLag for the smallest lag of maximum autocorrelation if
\* that maximum is above half the energy; in every other case it returns 0
C20_PitchAcceptance ==
    Returned("improvedAutoCorrelate") =>
        IF returned.exit \in {"periodic", "aperiodic"}
        THEN LET bestLag == BestLag(call.buffer, call.sampleRate)
                 accepted == 2 * Autocorrelation(call.buffer, bestLag) >
                                 Energy(call.buffer)
                 pitch == IF bestLag = 0 THEN Infinity
                          ELSE Frac(call.sampleRate, bestLag)
             IN  /\ accepted => (returned.t = pitch.t /\ returned.n = pitch.n)
                 /\ ~accepted => (returned.t = "num" /\ returned.n = 0)
        ELSE returned.t = "num" /\ returned.n = 0

\* a pitch was returned for a buffer in which two lags share the maximum
\* autocorrelation
C20_Witness ==
    /\ Returned("improvedAutoCorrelate")
    /\ returned.exit = "periodic"
    /\ returned.t = "num"
    /\ \E q \in Lags(call.sampleRate) :
          /\ q # BestLag(call.buffer, call.sampleRate)
          /\ Autocorrelation(call.buffer, q) =
                Autocorrelation(call.buffer, BestLag(call.buffer, call.sampleRate))

(***************************************************************************)
(* EmotionMapper                                                           *)
(***************************************************************************)
\* the valence that the brightness term alone gives
BrightnessOnlyValence(spectralCentroid) ==
    sigmoid(clamp(Mul(mapRange(spectralCentroid, Whole(1000), Whole(3000),
                               Frac(-1, 1), Frac(1, 1)),
                      Frac(6, 10)),
                  Frac(-1, 1), Frac(1, 1)),
            Frac(3, 1))

\* C21: for a snapshot whose pitch is 0, not greater than 50 or absent,
\* audioToEmotion returns the valence of the brightness term alone, which
\* depends on the spectral centroid only
C21_UndetectedPitch ==
    (Returned("audioToEmotion") /\ ~Gt(call.features.pitch, Whole(50))) =>
        returned.valence = BrightnessOnlyValence(call.features.spectralCentroid)

\* audioToEmotion has returned for a snapshot with a pitch of 30 Hz, and for
\* one without a pitch
C21_Witness ==
    /\ Returned("audioToEmotion")
    /\ call.features.pitch \in {Whole(30), Undefined}
    /\ IsNum(returned.valence)

\* the slot holds what processAudio wrote for the snapshot of the scenario
ScenarioWritten ==
    /\ call.fn = "processAudio"
    /\ LastWriter = "processAudio"
    /\ lastCall = [features |-> call.features, semantic |-> Num(0)]

\* the distance of a published theme from the joyful preset: the sum over
\* the fields of the difference, each as a fraction of the field's spread
\* over the four presets
PresetSpread(f) ==
    LET values == {Melancholic[f].n, Calm[f].n, Anxious[f].n, Joyful[f].n}
    IN  (CHOOSE x \in values : \A y \in values : y <= x)
            - (CHOOSE x \in values : \A y \in values : x <= y)
JoyfulDistance(theme) ==
    SumOver(ThemeFields,
            [f \in ThemeFields |->
                RoundDiv(Abs(theme[1][f].n - Joyful[f].n) * Unit, PresetSpread(f))])

\* C22 as claimed: the snapshot of the scenario gives valence > 0.5 and
\* arousal > 0.5, and every tick with that state as the target brings the
\* theme closer to the joyful preset (or leaves it)
C22_Scenario ==
    [][ /\ ScenarioWritten' =>
              /\ Gt(emotionState'.valence, Frac(1, 2))
              /\ Gt(emotionState'.arousal, Frac(1, 2))
        /\ (ScenarioWritten /\ Tick) =>
              JoyfulDistance(visualTheme') <= JoyfulDistance(visualTheme) ]_vars

\* C22: the snapshot of the scenario gives valence > 0.5; arousal is above
\* 0.5 if its clarity is at least 0.4, below 0.5 if its clarity is at most
\* 0.3 and NaN if clarity is absent; every tick with a state above 0.5 in
\* both fields as the target brings the theme closer to the joyful preset
C22_ScenarioByClarity ==
    [][ /\ ScenarioWritten' =>
              /\ Gt(emotionState'.valence, Frac(1, 2))
              /\ Le(Frac(4, 10), call.features.clarity) =>
                    Gt(emotionState'.arousal, Frac(1, 2))
              /\ Le(call.features.clarity, Frac(3, 10)) =>
                    Lt(emotionState'.arousal, Frac(1, 2))
              /\ call.features.clarity = Undefined => emotionState'.arousal = NaN
        /\ ( /\ ScenarioWritten
             /\ Gt(emotionState.arousal, Frac(1, 2))
             /\ Tick ) =>
              JoyfulDistance(visualTheme') < JoyfulDistance(visualTheme) ]_vars

\* ticks have followed the write of the scenario's state with both fields
\* above 0.5: the smoothed state is above 0 in both
C22_Witness ==
    /\ ScenarioWritten
    /\ Gt(emotionState.valence, Frac(1, 2))
    /\ Gt(emotionState.arousal, Frac(1, 2))
    /\ readOrigin = origin
    /\ Gt(smoothedEmotion.valence, Frac(3, 10))
    /\ Gt(smoothedEmotion.arousal, Frac(3, 10))

(***************************************************************************)
(* Recording                                                               *)
(***************************************************************************)
\* C23: whenever isRecording is true and no startRecording attempt is still
\* waiting for getUserMedia, the analyser is set and an analyze callback is
\* scheduled
C23_RecordingMatchesCapture ==
    (isRecording /\ inFlight = 0) => (analyserRef /\ pendingAnalyze > 0)

\* C24: every press of D ends in simulation mode; closing the panel leaves
\* the mode as it is; only startRecording leaves simulation mode; and no
\* step that ends in simulation mode writes the slot from processAudio
C24_SimulationTransitions ==
    [][ /\ KeyD => isSimulationMode'
        /\ PanelClose => (isSimulationMode' = isSimulationMode)
        /\ (isSimulationMode /\ ~isSimulationMode') => RecorderStart
        /\ (isSimulationMode' /\ Len(writes') > Len(writes)) =>
              writes'[Len(writes')] # "processAudio" ]_vars

\* D was pressed twice during recording: the panel is hidden, simulation
\* mode is on, the capture loop runs and processAudio has returned at its
\* check
C24_Witness ==
    /\ isRecording
    /\ pendingAnalyze > 0
    /\ isSimulationMode
    /\ ~isVisible
    /\ bypassed

\* C25: processAudio writes nothing for a snapshot with isActive = false; a
\* frame of the capture loop that stores such a snapshot leaves the slot as
\* it is; and so does stopRecording, which resets audioFeatures to the
\* inactive snapshot
C25_SilenceHolds ==
    [][ /\ ~audioFeatures'.isActive =>
              ~processAudio(FALSE, audioFeatures', semanticValenceRef').wrote
        /\ ((AnalyzeFrame \/ GetUserMediaResolve) /\ ~audioFeatures'.isActive) =>
              UNCHANGED <<emotionState, writes>>
        /\ RecorderStop =>
              /\ UNCHANGED <<emotionState, writes>>
              /\ audioFeatures' = stoppedFeatures
              /\ ~audioFeatures'.isActive ]_vars

\* recording was stopped after the capture loop had published a state (the
\* analyser a frame needs is cleared only by stopRecording), and the slot
\* still holds that state
C25_Witness ==
    /\ stoppedSinceStart
    /\ ~isRecording
    /\ ~analyserRef
    /\ inFlight = 0
    /\ LastWriter = "processAudio"
    /\ emotionState # defaultEmotionState
    /\ audioFeatures = stoppedFeatures

\* C26: while nothing has been written to the shared emotion slot, the
\* smoothed state equals the default state the slot holds, and a render tick
\* produces the theme that is already shown
C26_ConsistentInitialState ==
    [][ writes = << >> =>
            /\ emotionState = defaultEmotionState
            /\ smoothedEmotion = emotionState
            /\ (mounted /\ Tick) => visualTheme' = visualTheme ]_vars

(***************************************************************************)
(* The recognizer and the recording flag                                   *)
(***************************************************************************)
\* recognition.onstart or recognition.onend after the last task of the run:
\* the recognizer answers start() and stop() also when nothing else happens
RecognizerAnswers ==
    /\ steps = MaxSteps
    /\ UNCHANGED callVars
    /\ \/ /\ recState = "starting"
          /\ isListening' = TRUE
          /\ recState' = recordingEffect("running", TRUE, isRecording)
       \/ /\ recState \in {"starting", "running", "stopping"}
          /\ isListening' = FALSE
          /\ recState' = IF isListening
                         THEN recordingEffect("idle", FALSE, isRecording)
                         ELSE "idle"
    /\ UNCHANGED emotionVars
    /\ UNCHANGED <<envVars, mounted, isRecording, isSimulationMode, transcript,
                   transcriptSeen, semanticValenceRef, captureVars, isVisible, steps>>

\* the recorder button, the recognizer and the transcript it reports
RecognitionNext ==
    \/ Mount
    \/ RecorderStart
    \/ RecorderStop
    \/ RecognitionStart
    \/ RecognitionEnd
    \/ SpeechResult
    \/ RenderTranscript
    \/ RecognizerAnswers

\* what the recognizer's events do to the recognizer and to isListening once
\* start() or stop() has been called on it
Answering ==
    /\ recState \in {"starting", "stopping"}
    /\ \/ /\ recState = "starting"
          /\ isListening' = TRUE
          /\ recState' = recordingEffect("running", TRUE, isRecording)
       \/ /\ isListening' = FALSE
          /\ recState' = IF isListening
                         THEN recordingEffect("idle", FALSE, isRecording)
                         ELSE "idle"

\* the browser answers start() with onstart, onerror or onend, and stop()
\* with onend
RecognitionSpec ==
    /\ Init
    /\ [][RecognitionNext]_vars
    /\ WF_<<recState, isListening>>(Answering)

\* C27: while isRecording is false the recognizer is eventually stopped with
\* isListening false, and a stopped recognizer stays stopped as long as
\* isRecording stays false; this covers a stop between start() and onstart
C27_RecognitionFollowsRecording ==
    /\ [](~isRecording => <>(isRecording \/ (recState = "idle" /\ ~isListening)))
    /\ [][ (~isRecording /\ ~isRecording' /\ recState = "idle") =>
              (recState' = "idle" /\ ~isListening') ]_vars

\* recording was stopped after start() and before onstart
C27_Witness ==
    /\ stoppedSinceStart
    /\ ~isRecording
    /\ recState = "starting"
    /\ ~isListening

\* C28: when the recognizer ends or reports an error while isRecording is
\* true, the recognizer is left idle: start() is not called on it again
C28_NoRestartLoop ==
    [][ (RecognitionEnd /\ isRecording) => recState' = "idle" ]_vars

(***************************************************************************)
(* Hull of the presets                                                     *)
(***************************************************************************)
Presets == {Melancholic, Calm, Anxious, Joyful}

\* the in-range value nearest to x
NearestInRange(x) ==
    IF Lt(x, Frac(-1, 1)) THEN Frac(-1, 1)
    ELSE IF Gt(x, Frac(1, 1)) THEN Frac(1, 1)
    ELSE x

C30_PitchRange ==
    Returned("improvedAutoCorrelate") =>
        /\ returned.t = "num"
        /\ \/ returned.n = 0
           \/ (Frac(60, 1).n <= returned.n /\ returned.n <= Frac(1000, 1).n)
        /\ Len(call.buffer) < call.sampleRate \div 60 => returned.n = 0

=============================================================================
